---- MODULE Spec2Model ----
(***************************************************************************)
(* protoc-gen-docs, cmd/protoc-gen-docs/htmlGenerator.go: the document     *)
(* assembly of htmlGenerator.  generateOutput is modelled as a state       *)
(* machine whose steps are the iterations of its loops; the functions it   *)
(* calls (getFileContents, includeUnsituatedDependencies, generateFile,    *)
(* linkify, warn, ...) are operators computed the way the code computes    *)
(* them.  Names are sequences of dot-free components: "a.B.C" is           *)
(* <<"a","B","C">>, so strings.HasPrefix(name, key+".") is "key is a       *)
(* proper prefix of name".  Services take no part in the type lists and    *)
(* are left out of the documents.                                          *)
(***************************************************************************)
EXTENDS Integers, Sequences, FiniteSets, TLC

(***************************************************************************)
(* Bounds of the model.                                                    *)
(***************************************************************************)
\* longest field list given to the message of the first file
MaxFields == 2

(***************************************************************************)
(* protomodel.Mode, as used by generateOutput.                             *)
(***************************************************************************)
ModeUnset == "ModeUnset"
ModeFile == "ModeFile"
ModePackage == "ModePackage"
ModeNone == "ModeNone"
Modes == {ModeUnset, ModeFile, ModePackage, ModeNone}

\* a nil *CodeGeneratorResponse, and the pointer to the local response
Nil == "nil"
ResponsePtr == "&response"
\* a nil *FileDescriptor
NilFile == 0

(***************************************************************************)
(* The descriptor model (g.model): two packages of two files each.         *)
(*   package p: file 1 declares message U; file 2 declares message A and   *)
(*              its nested message A.B                                     *)
(*   package q: file 3 declares message Any and enum E; file 4 declares    *)
(*              nothing                                                    *)
(* Prim stands for the type of a field of primitive type (a nil CoreDesc). *)
(* What the front matter and the options of the descriptors say (modes,    *)
(* home locations, hidden and map-entry flags, the file that documents a   *)
(* package, the name of package q) is input, held in variables.            *)
(***************************************************************************)
Packages == <<"p", "q">>
Files == {1, 2, 3, 4}
Prim == 0
Nodes == {1, 2, 3, 4, 5}
MessageNodes == {1, 2, 3, 4}
EnumNodes == {5}

\* PackageDescriptor.Files
PkgFiles(pkg) == IF pkg = "p" THEN <<1, 2>> ELSE <<3, 4>>

\* FileDescriptor.PackageDesc()
FilePkg(f) == IF f \in {1, 2} THEN "p" ELSE "q"

\* CoreDesc.FileDesc()
NodeFile(n) == CASE n = 1 -> 1 [] n \in {2, 3} -> 2 [] OTHER -> 3

\* CoreDesc.PackageDesc()
NodePkg(n) == FilePkg(NodeFile(n))

\* protomodel.DottedName
DottedName(n) ==
    CASE n = 1 -> <<"U">>
      [] n = 2 -> <<"A">>
      [] n = 3 -> <<"A", "B">>
      [] n = 4 -> <<"Any">>
      [] OTHER -> <<"E">>

\* FileDescriptor.AllMessages, AllEnums
AllMessages(f) == CASE f = 1 -> <<1>> [] f = 2 -> <<2, 3>> [] f = 3 -> <<4>> [] OTHER -> <<>>
AllEnums(f) == IF f = 3 THEN <<5>> ELSE <<>>


\* the map wellKnownTypes: a URL for each of these absolute names
WellKnownBase == "https://developers.google.com/protocol-buffers/docs/reference/google.protobuf#"
WellKnownTable ==
    { <<"Duration", "duration">>, <<"Timestamp", "timestamp">>, <<"Any", "any">>,
      <<"BytesValue", "bytesvalue">>, <<"StringValue", "stringvalue">>,
      <<"BoolValue", "boolvalue">>, <<"Int32Value", "int32value">>,
      <<"Int64Value", "int64value">>, <<"Uint32Value", "uint32value">>,
      <<"Uint64Value", "uint64value">>, <<"FloatValue", "floatvalue">>,
      <<"DoubleValue", "doublevalue">>, <<"Empty", "empty">>, <<"EnumValue", "enumvalue">>,
      <<"ListValue", "listvalue">>, <<"NullValue", "nullvalue">>, <<"Struct", "struct">> }
wellKnownTypes ==
    [k \in {<<"google", "protobuf", e[1]>> : e \in WellKnownTable} |->
        <<WellKnownBase, (CHOOSE e \in WellKnownTable : e[1] = k[3])[2]>>]

\* wellKnownTypes[absName], the zero value "" of a missing key being <<>>
Known(absName) ==
    IF absName \in DOMAIN wellKnownTypes THEN wellKnownTypes[absName] ELSE <<>>

Range(s) == {s[i] : i \in 1..Len(s)}

\* all sequences over S of length at most n
SeqsUpTo(S, n) == UNION {[1..k -> S] : k \in 0..n}

VARIABLES
    \* inputs of the run (read-only once chosen)
    fileMode,          \* file.Matter.Mode of every file
    filesToGen,         \* the requested files
    homeLocation,       \* file.Matter.HomeLocation of every file ("" = unset)
    fields,             \* msg.Fields: the type each field refers to
    uncommented,        \* the nodes whose comment is missing
    hiddenNodes,        \* the nodes that are hidden from the output
    mapEntryNodes,      \* the messages that are synthetic map entries
    pkgFileDesc,        \* the file documenting each package, or NilFile
    pkgName,            \* PackageDescriptor.Name of each package
    genWarnings, warningsAsErrors,
    packageFileModes,   \* the modes of the files of one package, in pkg.Files order
    \* state of generateOutput
    pc,                 \* position in generateOutput
    pkgIdx,             \* index of the package the outer loop is at
    fileIdx,            \* index of the file an inner loop is at
    mode,               \* the package mode so far
    filteredFiles,
    response,           \* response.File: the documents appended so far
    buffer,             \* g.buffer: what was emitted since it was last reset
    numWarnings,        \* g.numWarnings
    currentPackage, currentFrontMatterProvider,
    result,             \* what generateOutput returned
    \* history
    occurrences,        \* number of calls of warn so far
    pkgModes,           \* resolved mode of every package fully scanned
    \* one call of linkify: its arguments and what it returned
    linkIn, linkOut,
    \* the two-pass loop over the entries of one container
    entries,            \* the fields, values or methods, in declaration order
    renderPc,
    dep,                \* the pass: FALSE active entries, TRUE deprecated ones
    entryIdx,           \* the entry the inner loop is at
    emitted,            \* the indices of the entries emitted so far
    \* one call of generateComment, up to line 844
    com,                \* the comment of the location, "" when there is none
    lines,
    lineIdx,            \* i of the loop over lines, counted from 1
    commentPc,
    grouping,           \* g.grouping
    \* history of that call
    elideIn,            \* lines as the elision loop found them
    rescans             \* number of i-- steps of the elision loop so far

inputs == <<fileMode, filesToGen, homeLocation, fields, uncommented, hiddenNodes,
            mapEntryNodes, pkgFileDesc, pkgName, genWarnings, warningsAsErrors,
            packageFileModes>>
linkVars == <<linkIn, linkOut>>
renderVars == <<entries, renderPc, dep, entryIdx, emitted>>
commentVars == <<com, lines, lineIdx, commentPc, grouping, elideIn, rescans>>
runVars == <<pc, pkgIdx, fileIdx, mode, filteredFiles, response, buffer, numWarnings,
             currentPackage, currentFrontMatterProvider, result, occurrences, pkgModes>>
vars == <<fileMode, filesToGen, homeLocation, fields, uncommented, hiddenNodes,
          mapEntryNodes, pkgFileDesc, pkgName, genWarnings, warningsAsErrors,
          packageFileModes, linkIn, linkOut, entries, renderPc, dep, entryIdx, emitted,
          com, lines, lineIdx, commentPc, grouping, elideIn, rescans, pc, pkgIdx, fileIdx, mode, filteredFiles, response, buffer,
          numWarnings, currentPackage, currentFrontMatterProvider, result,
          occurrences, pkgModes>>

(***************************************************************************)
(* Names and locations.                                                    *)
(***************************************************************************)
\* desc.IsHidden()
IsHidden(n) == n \in hiddenNodes

\* msg.GetOptions().GetMapEntry()
IsMapEntry(n) == n \in mapEntryNodes

\* PackageDescriptor.FileDesc(): the file documenting the package statement
PkgFileDesc(pkg) == pkgFileDesc[pkg]

\* PackageDescriptor.Name, as its components
PackageName(pkg) == pkgName[pkg]

\* htmlGenerator.relativeName: package-qualified only for a foreign package
relativeName(desc) ==
    IF NodePkg(desc) = currentPackage
    THEN DottedName(desc)
    ELSE PackageName(NodePkg(desc)) \o DottedName(desc)

\* htmlGenerator.absoluteName
absoluteName(desc) == PackageName(NodePkg(desc)) \o DottedName(desc)

\* htmlGenerator.descLocation
descLocation(desc, isPackage) ==
    IF ~isPackage
    THEN homeLocation[NodeFile(desc)]
    ELSE IF PkgFileDesc(NodePkg(desc)) # NilFile
         THEN homeLocation[PkgFileDesc(NodePkg(desc))]
         ELSE ""

\* the home location linkify computes (lines 976-982): the file-specific one,
\* else the package-wide one
LinkHome(desc) ==
    IF homeLocation[NodeFile(desc)] # ""
    THEN homeLocation[NodeFile(desc)]
    ELSE IF PkgFileDesc(NodePkg(desc)) # NilFile
         THEN homeLocation[PkgFileDesc(NodePkg(desc))]
         ELSE ""

\* hasName with a loop that stops one element early
hasNameButLast(descs, name) == \E i \in 1..(Len(descs) - 1) : relativeName(descs[i]) = name

\* htmlGenerator.hasName
hasName(descs, name) == \E i \in 1..Len(descs) : relativeName(descs[i]) = name

(***************************************************************************)
(* includeUnsituatedDependencies.  wl holds the two working lists the      *)
(* pointers messages and enums refer to, the types this function appended  *)
(* to them, the number of calls made and, for every message getFileContents*)
(* scanned, the number of calls made from within its call; i is the index  *)
(* of the field the loop over msg.Fields is at.                            *)
(***************************************************************************)
RECURSIVE includeUnsituatedDependencies(_, _, _, _)
includeUnsituatedDependencies(wl, msg, isPackage, i) ==
    IF i > Len(fields[msg])
    THEN wl
    ELSE LET f == fields[msg][i] IN
         IF f \in MessageNodes
         THEN IF descLocation(f, isPackage) = "" /\ ~hasName(wl.messages, relativeName(f))
              THEN LET appended == [wl EXCEPT !.messages = Append(@, f),
                                              !.pulled = Append(@, f),
                                              !.calls = @ + 1,
                                              !.nested[Len(wl.nested)].calls = @ + 1]
                       \* line 243: the recursive call is given msg, not f
                       inner == includeUnsituatedDependencies(appended, msg, isPackage, 1)
                   IN  includeUnsituatedDependencies(inner, msg, isPackage, i + 1)
              ELSE includeUnsituatedDependencies(wl, msg, isPackage, i + 1)
         ELSE IF f \in EnumNodes
         THEN IF descLocation(f, isPackage) = ""
              THEN includeUnsituatedDependencies(
                       [wl EXCEPT !.enums = Append(@, f), !.pulled = Append(@, f)],
                       msg, isPackage, i + 1)
              ELSE includeUnsituatedDependencies(wl, msg, isPackage, i + 1)
         ELSE includeUnsituatedDependencies(wl, msg, isPackage, i + 1)

\* the loop of getFileContents over file.AllMessages (lines 94-96)
RECURSIVE ScanMessages(_, _, _)
ScanMessages(wl, file, k) ==
    IF k > Len(AllMessages(file))
    THEN wl
    ELSE ScanMessages(
             includeUnsituatedDependencies(
                 [wl EXCEPT !.calls = @ + 1,
                            !.nested = Append(@, [msg |-> AllMessages(file)[k], calls |-> 0])],
                 AllMessages(file)[k],
                 fileMode[file] = ModePackage, 1),
             file, k + 1)

\* htmlGenerator.getFileContents (services carry no type into the lists)
getFileContents(file, wl) ==
    ScanMessages([wl EXCEPT !.messages = @ \o AllMessages(file),
                            !.enums = @ \o AllEnums(file)], file, 1)

EmptyLists == [messages |-> <<>>, enums |-> <<>>, pulled |-> <<>>, calls |-> 0, nested |-> <<>>]

(***************************************************************************)
(* generateFile: the type list and its order.                              *)
(***************************************************************************)
\* lines 272-291 without the test of line 274
RECURSIVE MessageNamesWithMapEntries(_, _)
MessageNamesWithMapEntries(messages, i) ==
    IF i > Len(messages)
    THEN <<>>
    ELSE LET msg == messages[i] IN
         IF IsHidden(msg) \/ Known(absoluteName(msg)) # <<>>
         THEN MessageNamesWithMapEntries(messages, i + 1)
         ELSE <<relativeName(msg)>> \o MessageNamesWithMapEntries(messages, i + 1)

\* lines 272-291: the names of the messages that are rendered
RECURSIVE MessageNames(_, _)
MessageNames(messages, i) ==
    IF i > Len(messages)
    THEN <<>>
    ELSE LET msg == messages[i] IN
         IF IsMapEntry(msg) \/ IsHidden(msg) \/ Known(absoluteName(msg)) # <<>>
         THEN MessageNames(messages, i + 1)
         ELSE <<relativeName(msg)>> \o MessageNames(messages, i + 1)

\* lines 293-312: the names of the enums that are rendered, each once
RECURSIVE EnumNames(_, _, _)
EnumNames(enums, i, enumMap) ==
    IF i > Len(enums)
    THEN <<>>
    ELSE LET enum == enums[i] IN
         IF IsHidden(enum) \/ Known(absoluteName(enum)) # <<>>
            \/ relativeName(enum) \in enumMap
         THEN EnumNames(enums, i + 1, enumMap)
         ELSE <<relativeName(enum)>>
                  \o EnumNames(enums, i + 1, enumMap \cup {relativeName(enum)})

\* strings.HasPrefix(name, key+".")
HasDotPrefix(name, key) ==
    Len(name) > Len(key) /\ SubSeq(name, 1, Len(key)) = key

\* lines 317-338: addKey, with the loop over typeList it ends with
RECURSIVE addKey(_, _, _)
RECURSIVE addChildren(_, _, _, _)
addKey(st, key, typeList) ==
    IF key \in st.seen
    THEN st
    ELSE addChildren([seen |-> st.seen \cup {key}, sortedTypes |-> Append(st.sortedTypes, key)],
                     key, typeList, 1)
addChildren(st, key, typeList, i) ==
    IF i > Len(typeList)
    THEN st
    ELSE IF HasDotPrefix(typeList[i], key)
         THEN addChildren(addKey(st, typeList[i], typeList), key, typeList, i + 1)
         ELSE addChildren(st, key, typeList, i + 1)

\* lines 340-346: the sorted version of typeList
RECURSIVE SortFrom(_, _, _)
SortFrom(st, typeList, i) ==
    IF i > Len(typeList)
    THEN st.sortedTypes
    ELSE SortFrom(addKey(st, typeList[i], typeList), typeList, i + 1)
SortTypes(typeList) == SortFrom([seen |-> {}, sortedTypes |-> <<>>], typeList, 1)

(***************************************************************************)
(* generateFile: rendering, as far as the warning counter sees it.         *)
(***************************************************************************)
\* htmlGenerator.warn, as a function of g.numWarnings
warn(n) == IF genWarnings THEN n + 1 ELSE n

\* the node messagesMap / enumMap hold for a name (lines 389-393)
NodeNamed(wl, name) ==
    CHOOSE n \in Range(wl.messages) \cup Range(wl.enums) : relativeName(n) = name

\* lines 388-394: one section per name; generateComment warns when the
\* node has no comment (lines 761-767).  The comments of the package, of the
\* files and of the fields and values are taken to be there and to raise no
\* warning.
RECURSIVE RenderTypes(_, _, _, _)
RenderTypes(st, wl, typeList, i) ==
    IF i > Len(typeList)
    THEN st
    ELSE IF NodeNamed(wl, typeList[i]) \in uncommented
         THEN RenderTypes([numWarnings |-> warn(st.numWarnings),
                           occurrences |-> st.occurrences + 1], wl, typeList, i + 1)
         ELSE RenderTypes(st, wl, typeList, i + 1)

\* lines 268-346: the type list generateFile renders, in render order
TypeList(wl) == SortTypes(MessageNames(wl.messages, 1) \o EnumNames(wl.enums, 1, {}))

\* htmlGenerator.emit and its kin: the buffer with one more piece at its end
emit(buf, piece) == Append(buf, piece)

\* lines 388-394: one section per name of the type list
RECURSIVE emitTypes(_, _, _)
emitTypes(buf, typeList, i) ==
    IF i > Len(typeList) THEN buf ELSE emitTypes(emit(buf, typeList[i]), typeList, i + 1)

\* a buffer that is not emptied
ResetKeepsContent(buf) == buf

\* bytes.Buffer.Reset (line 266)
Reset(buf) == <<>>

\* lines 266, 370-400: g.buffer.String() when generateFile returns
Content(buf, typeList) ==
    emit(emitTypes(emit(Reset(buf), <<"header">>), typeList, 1), <<"footer">>)

\* the document generateFile returns, with the lists it was given and the
\* nodes it has a section for
Document(name, top, files, wl) ==
    [pkg |-> currentPackage, name |-> name, top |-> top, files |-> files,
     messages |-> wl.messages, enums |-> wl.enums, pulled |-> wl.pulled,
     nested |-> wl.nested,
     content |-> Content(buffer, TypeList(wl)),
     typeList |-> TypeList(wl),
     rendered |-> {NodeNamed(wl, key) : key \in Range(TypeList(wl))}]

(***************************************************************************)
(* generateOutput.                                                         *)
(***************************************************************************)
\* ModeStep with line 175 losing its last condition: a later ModeNone conflicts
ModeStepNoneConflicts(m, fm) ==
    IF m = ModeUnset
    THEN [mode |-> fm, conflict |-> FALSE]
    ELSE IF m = ModeNone /\ fm # ModeUnset
    THEN [mode |-> fm, conflict |-> FALSE]
    ELSE IF fm # ModeUnset /\ fm # m
    THEN [mode |-> m, conflict |-> TRUE]
    ELSE [mode |-> m, conflict |-> FALSE]

\* ModeStep without the branch of lines 172-174
ModeStepNoOverride(m, fm) ==
    IF m = ModeUnset
    THEN [mode |-> fm, conflict |-> FALSE]
    ELSE IF fm # ModeUnset /\ fm # m /\ fm # ModeNone
    THEN [mode |-> m, conflict |-> TRUE]
    ELSE [mode |-> m, conflict |-> FALSE]

\* lines 169-177: one iteration of the loop that sets the mode
ModeStep(m, fm) ==
    IF m = ModeUnset
    THEN [mode |-> fm, conflict |-> FALSE]
    ELSE IF m = ModeNone /\ fm # ModeUnset
    THEN [mode |-> fm, conflict |-> FALSE]
    ELSE IF fm # ModeUnset /\ fm # m /\ fm # ModeNone
    THEN [mode |-> m, conflict |-> TRUE]
    ELSE [mode |-> m, conflict |-> FALSE]

\* lines 168-178: the loop that sets the mode, over the modes of the files
\* of a package in the order of pkg.Files, from file i on with mode m so far
RECURSIVE ResolveModes(_, _, _)
ResolveModes(modes, m, i) ==
    IF i > Len(modes)
    THEN [mode |-> m, conflict |-> FALSE, have |-> "", got |-> "", file |-> NilFile]
    ELSE IF ModeStep(m, modes[i]).conflict
         THEN [mode |-> m, conflict |-> TRUE, have |-> m, got |-> modes[i], file |-> i]
         ELSE ResolveModes(modes, ModeStep(m, modes[i]).mode, i + 1)

\* lines 193-201: what the switch on the mode calls
OutputKind(m) ==
    CASE m \in {ModeFile, ModeUnset} -> "generatePerFileOutput"
      [] m = ModePackage -> "generatePerPackageOutput"
      [] OTHER -> "none"

\* ModeConflictResult returning the response built so far with the error
ModeConflictResultPartial(have, got, file) ==
    [response |-> ResponsePtr, err |-> "mode", have |-> have, got |-> got, file |-> file,
     count |-> 0]

\* line 176: return nil, fmt.Errorf(...)
ModeConflictResult(have, got, file) ==
    [response |-> Nil, err |-> "mode", have |-> have, got |-> got, file |-> file, count |-> 0]

\* FilteredFiles without the test of line 188
FilteredFilesUnrequested(pkg, m) ==
    {file \in Range(PkgFiles(pkg)) :
        LET fm == IF fileMode[file] = ModeUnset THEN m ELSE fileMode[file]
        IN  fm # ModeNone}

\* lines 180-191
FilteredFiles(pkg, m) ==
    {file \in Range(PkgFiles(pkg)) :
        LET fm == IF fileMode[file] = ModeUnset THEN m ELSE fileMode[file]
        IN  fm # ModeNone /\ file \in filesToGen}

\* EndResult without the test of line 204
EndResultNoPromotion ==
    [response |-> ResponsePtr, err |-> "", have |-> "", got |-> "", file |-> NilFile,
     count |-> 0]

\* lines 204-208
EndResult ==
    IF warningsAsErrors /\ numWarnings > 0
    THEN [response |-> Nil, err |-> "warnings", have |-> "", got |-> "", file |-> NilFile,
          count |-> numWarnings]
    ELSE [response |-> ResponsePtr, err |-> "", have |-> "", got |-> "", file |-> NilFile,
          count |-> 0]

NoResult == [response |-> Nil, err |-> "running", have |-> "", got |-> "", file |-> NilFile,
             count |-> 0]

\* lines 156-167: the head of the loop over g.model.Packages
StartPackage ==
    /\ pc = "package"
    /\ pkgIdx <= Len(Packages)
    /\ currentPackage' = Packages[pkgIdx]
    /\ currentFrontMatterProvider' = PkgFileDesc(Packages[pkgIdx])
    /\ filteredFiles' = {}
    /\ mode' = ModeUnset
    /\ fileIdx' = 1
    /\ pc' = "scan"
    /\ UNCHANGED <<inputs, commentVars, linkVars, renderVars, buffer, pkgIdx, response, numWarnings, result, occurrences, pkgModes>>

\* lines 168-178: one file of the loop that sets the mode; no conflict
ScanFile ==
    /\ pc = "scan"
    /\ fileIdx <= Len(PkgFiles(currentPackage))
    /\ LET step == ModeStep(mode, fileMode[PkgFiles(currentPackage)[fileIdx]]) IN
        /\ ~step.conflict
        /\ mode' = step.mode
    /\ fileIdx' = fileIdx + 1
    /\ UNCHANGED <<inputs, commentVars, linkVars, renderVars, buffer, pc, pkgIdx, filteredFiles, response, numWarnings, currentPackage,
                   currentFrontMatterProvider, result, occurrences, pkgModes>>

\* lines 175-177: the file conflicts with the mode so far; generateOutput returns
ModeConflict ==
    /\ pc = "scan"
    /\ fileIdx <= Len(PkgFiles(currentPackage))
    /\ LET file == PkgFiles(currentPackage)[fileIdx]
           step == ModeStep(mode, fileMode[file])
       IN  /\ step.conflict
           /\ result' = ModeConflictResult(mode, fileMode[file], file)
    /\ pc' = "done"
    /\ UNCHANGED <<inputs, commentVars, linkVars, renderVars, buffer, pkgIdx, fileIdx, mode, filteredFiles, response, numWarnings,
                   currentPackage, currentFrontMatterProvider, occurrences, pkgModes>>

\* lines 180-201: the files to generate, and the switch on the mode
SelectFiles ==
    /\ pc = "scan"
    /\ fileIdx > Len(PkgFiles(currentPackage))
    /\ filteredFiles' = FilteredFiles(currentPackage, mode)
    /\ pkgModes' = Append(pkgModes, mode)
    /\ IF filteredFiles' # {} /\ mode \in {ModeFile, ModeUnset}
       THEN pc' = "perFile" /\ fileIdx' = 1 /\ pkgIdx' = pkgIdx
       ELSE IF filteredFiles' # {} /\ mode = ModePackage
       THEN pc' = "perPackage" /\ fileIdx' = 1 /\ pkgIdx' = pkgIdx
       ELSE pc' = "package" /\ fileIdx' = 1 /\ pkgIdx' = pkgIdx + 1
    /\ UNCHANGED <<inputs, commentVars, linkVars, renderVars, buffer, mode, response, numWarnings, currentPackage,
                   currentFrontMatterProvider, result, occurrences>>

\* lines 109-122: one file of generatePerFileOutput that is in filesToGen
GeneratePerFile ==
    /\ pc = "perFile"
    /\ fileIdx <= Len(PkgFiles(currentPackage))
    /\ LET file == PkgFiles(currentPackage)[fileIdx]
           wl == getFileContents(file, EmptyLists)
           doc == Document(<<"file", file>>, file, {file}, wl)
           st == RenderTypes([numWarnings |-> numWarnings, occurrences |-> occurrences],
                             wl, doc.typeList, 1)
       IN  /\ file \in filteredFiles
           /\ currentFrontMatterProvider' = file
           /\ response' = Append(response, doc)
           /\ buffer' = doc.content
           /\ numWarnings' = st.numWarnings
           /\ occurrences' = st.occurrences
    /\ fileIdx' = fileIdx + 1
    /\ UNCHANGED <<inputs, commentVars, linkVars, renderVars, pc, pkgIdx, mode, filteredFiles, currentPackage, result, pkgModes>>

\* line 110: a file of the package that is not in filesToGen
SkipFile ==
    /\ pc = "perFile"
    /\ fileIdx <= Len(PkgFiles(currentPackage))
    /\ PkgFiles(currentPackage)[fileIdx] \notin filteredFiles
    /\ fileIdx' = fileIdx + 1
    /\ UNCHANGED <<inputs, commentVars, linkVars, renderVars, buffer, pc, pkgIdx, mode, filteredFiles, response, numWarnings,
                   currentPackage, currentFrontMatterProvider, result, occurrences, pkgModes>>

\* the lists generatePerPackageOutput collects (lines 134-142)
RECURSIVE PackageContents(_, _, _)
PackageContents(pkg, wl, k) ==
    IF k > Len(PkgFiles(pkg))
    THEN wl
    ELSE IF PkgFiles(pkg)[k] \in filteredFiles
         THEN PackageContents(pkg, getFileContents(PkgFiles(pkg)[k], wl), k + 1)
         ELSE PackageContents(pkg, wl, k + 1)

\* lines 125-147: generatePerPackageOutput
GeneratePerPackage ==
    /\ pc = "perPackage"
    /\ LET wl == PackageContents(currentPackage, EmptyLists, 1)
           doc == Document(<<"package", currentPackage>>, PkgFileDesc(currentPackage),
                           filteredFiles, wl)
           st == RenderTypes([numWarnings |-> numWarnings, occurrences |-> occurrences],
                             wl, doc.typeList, 1)
       IN  /\ response' = Append(response, doc)
           /\ buffer' = doc.content
           /\ numWarnings' = st.numWarnings
           /\ occurrences' = st.occurrences
    /\ pc' = "package"
    /\ pkgIdx' = pkgIdx + 1
    /\ UNCHANGED <<inputs, commentVars, linkVars, renderVars, fileIdx, mode, filteredFiles, currentPackage,
                   currentFrontMatterProvider, result, pkgModes>>

\* line 122: generatePerFileOutput returns; the loop over the packages goes on
NextPackage ==
    /\ pc = "perFile"
    /\ fileIdx > Len(PkgFiles(currentPackage))
    /\ pc' = "package"
    /\ pkgIdx' = pkgIdx + 1
    /\ UNCHANGED <<inputs, commentVars, linkVars, renderVars, buffer, fileIdx, mode, filteredFiles, response, numWarnings,
                   currentPackage, currentFrontMatterProvider, result, occurrences, pkgModes>>

\* lines 204-208: every package was processed
EndOfRun ==
    /\ pc = "package"
    /\ pkgIdx > Len(Packages)
    /\ result' = EndResult
    /\ pc' = "done"
    /\ UNCHANGED <<inputs, commentVars, linkVars, renderVars, buffer, pkgIdx, fileIdx, mode, filteredFiles, response, numWarnings,
                   currentPackage, currentFrontMatterProvider, occurrences, pkgModes>>

(***************************************************************************)
(* The runs checked: every combination of file modes with a fixed type     *)
(* graph, and every type graph in bounds with the modes of package p.      *)
(***************************************************************************)
RequestedSets == {Files, Files \ {1}, Files \ {3}}
CommentlessSets == {{}, {1, 4}}
HiddenSets == {{}, {2}}
HomeLocations == {"", "https://ext/"}
\* the field lists of message A
DepFieldLists == {<<>>, <<4>>, <<1>>}

StartState ==
    /\ pc = "package"
    /\ pkgIdx = 1
    /\ fileIdx = 1
    /\ mode = ModeUnset
    /\ filteredFiles = {}
    /\ response = <<>>
    /\ buffer = <<>>
    /\ numWarnings = 0
    /\ currentPackage = Nil
    /\ currentFrontMatterProvider = NilFile
    /\ result = NoResult
    /\ occurrences = 0
    /\ pkgModes = <<>>

\* the descriptor options the runs do not vary
PlainDescriptors ==
    /\ mapEntryNodes = {}
    /\ pkgFileDesc = [pkg \in Range(Packages) |-> IF pkg = "p" THEN 1 ELSE 4]
    /\ pkgName = [pkg \in Range(Packages) |-> <<pkg>>]

NoLink ==
    /\ linkIn = [o |-> Prim, name |-> <<>>, onlyLastComponent |-> FALSE]
    /\ linkOut = [tag |-> "", href |-> <<>>, text |-> <<>>]   \* no call yet

NoContainer ==
    /\ entries = <<>>
    /\ renderPc = "idle"
    /\ dep = FALSE
    /\ entryIdx = 1
    /\ emitted = <<>>

\* the files of the packages carry their modes themselves (fileMode)
NoModeList == packageFileModes = <<>>

NoComment ==
    /\ com = <<>>
    /\ lines = <<>>
    /\ lineIdx = 1
    /\ commentPc = "idle"
    /\ grouping = FALSE
    /\ elideIn = <<>>
    /\ rescans = 0

InitModes ==
    /\ fileMode \in [Files -> Modes]
    /\ filesToGen \in RequestedSets
    /\ homeLocation = [f \in Files |-> ""]
    /\ fields = [n \in MessageNodes |-> CASE n = 1 -> <<2, 5>> [] n = 2 -> <<4>> [] OTHER -> <<>>]
    /\ uncommented \in CommentlessSets
    /\ hiddenNodes \in HiddenSets
    /\ genWarnings \in BOOLEAN
    /\ warningsAsErrors \in BOOLEAN

InitGraphs ==
    /\ \E m1, m2 \in Modes :
         fileMode = [f \in Files |-> CASE f = 1 -> m1 [] f = 2 -> m2 [] OTHER -> ModeUnset]
    /\ filesToGen = Files
    /\ \E h2, h4 \in HomeLocations :
         homeLocation = [f \in Files |-> CASE f = 2 -> h2 [] f = 4 -> h4 [] OTHER -> ""]
    /\ \E f1 \in SeqsUpTo(Nodes \cup {Prim}, MaxFields), f2 \in DepFieldLists :
         fields = [n \in MessageNodes |-> CASE n = 1 -> f1 [] n = 2 -> f2 [] OTHER -> <<>>]
    /\ uncommented = {}
    /\ hiddenNodes = {}
    /\ genWarnings = TRUE
    /\ warningsAsErrors = FALSE

Init ==
    (InitModes \/ InitGraphs) /\ PlainDescriptors /\ StartState /\ NoLink /\ NoContainer /\ NoComment
    /\ NoModeList

Next ==
    \/ StartPackage
    \/ ScanFile
    \/ ModeConflict
    \/ SelectFiles
    \/ GeneratePerFile
    \/ SkipFile
    \/ GeneratePerPackage
    \/ NextPackage
    \/ EndOfRun

Spec == Init /\ [][Next]_vars

(***************************************************************************)
(* linkify.  A link is the tag it is made of, the pieces of its href and   *)
(* its text; a name returned as it is has the tag "".                      *)
(***************************************************************************)
\* normalizeID: every "." of the name, the joints of its components, is "-"
RECURSIVE normalizeID(_)
normalizeID(id) ==
    IF Len(id) <= 1 THEN id ELSE <<Head(id), "-">> \o normalizeID(Tail(id))

\* lines 962-968: the text after the last "."
DisplayName(name, onlyLastComponent) ==
    IF onlyLastComponent /\ Len(name) > 1 THEN <<name[Len(name)]>> ELSE name

\* line 984: the location is set and is not the one of the current document
IsElsewhere(loc) ==
    /\ loc # ""
    /\ \/ currentFrontMatterProvider = NilFile
       \/ loc # homeLocation[currentFrontMatterProvider]

PlainText(name) == [tag |-> "", href |-> <<>>, text |-> name]
Anchor(href, text) == [tag |-> "a", href |-> href, text |-> text]

\* linkify without lines 979-982: only the file-specific location is looked at
linkifyFileLocationOnly(o, name, onlyLastComponent) ==
    IF o = Prim
    THEN PlainText(name)
    ELSE IF o \in MessageNodes /\ IsMapEntry(o)
    THEN PlainText(name)
    ELSE IF Known(absoluteName(o)) # <<>>
    THEN Anchor(Known(absoluteName(o)), DisplayName(name, onlyLastComponent))
    ELSE IF ~IsHidden(o) /\ IsElsewhere(homeLocation[NodeFile(o)])
    THEN Anchor(<<homeLocation[NodeFile(o)], "#">> \o normalizeID(DottedName(o)),
                DisplayName(name, onlyLastComponent))
    ELSE Anchor(<<"#">> \o normalizeID(relativeName(o)),
                DisplayName(name, onlyLastComponent))

\* htmlGenerator.linkify
linkify(o, name, onlyLastComponent) ==
    IF o = Prim
    THEN PlainText(name)
    ELSE IF o \in MessageNodes /\ IsMapEntry(o)
    THEN PlainText(name)
    ELSE IF Known(absoluteName(o)) # <<>>
    THEN Anchor(Known(absoluteName(o)), DisplayName(name, onlyLastComponent))
    ELSE IF ~IsHidden(o) /\ IsElsewhere(LinkHome(o))
    THEN Anchor(<<LinkHome(o), "#">> \o normalizeID(DottedName(o)),
                DisplayName(name, onlyLastComponent))
    ELSE Anchor(<<"#">> \o normalizeID(relativeName(o)),
                DisplayName(name, onlyLastComponent))

\* a call of linkify while a document is generated: for the type of a field
\* (line 611) or for a typed link of a comment (line 859)
Linkify ==
    /\ pc = "generateFile"
    /\ linkOut = PlainText(<<>>)
    /\ \E o \in Nodes \cup {Prim}, onlyLastComponent \in BOOLEAN :
         \E name \in {<<"text">>, IF o = Prim THEN <<"int32">> ELSE relativeName(o)} :
            /\ linkIn' = [o |-> o, name |-> name, onlyLastComponent |-> onlyLastComponent]
            /\ linkOut' = linkify(o, name, onlyLastComponent)
    /\ UNCHANGED <<inputs, commentVars, renderVars, runVars>>

\* the descriptors and the document linkify is called in
LinkHomeLocations == {"", "https://ext/", "https://other/"}
InitLink ==
    /\ fileMode = [f \in Files |-> ModeUnset]
    /\ filesToGen = Files
    /\ homeLocation \in [Files -> LinkHomeLocations]
    /\ fields = [n \in MessageNodes |-> <<>>]
    /\ uncommented = {}
    /\ hiddenNodes \in {{}, {2, 4}}
    /\ mapEntryNodes \in {{}, {3}}
    /\ \E fd \in {4, NilFile} :
         pkgFileDesc = [pkg \in Range(Packages) |-> IF pkg = "p" THEN 1 ELSE fd]
    /\ \E qn \in {<<"q">>, <<"google", "protobuf">>} :
         pkgName = [pkg \in Range(Packages) |-> IF pkg = "p" THEN <<"p">> ELSE qn]
    /\ genWarnings = FALSE
    /\ warningsAsErrors = FALSE
    /\ pc = "generateFile"
    /\ pkgIdx \in 1..Len(Packages)
    /\ currentPackage = Packages[pkgIdx]
    /\ currentFrontMatterProvider \in {PkgFileDesc(currentPackage)} \cup Range(PkgFiles(currentPackage))
    /\ fileIdx = 1
    /\ mode = ModeUnset
    /\ filteredFiles = {}
    /\ response = <<>>
    /\ buffer = <<>>
    /\ numWarnings = 0
    /\ result = NoResult
    /\ occurrences = 0
    /\ pkgModes = <<>>
    /\ NoLink
    /\ NoContainer
    /\ NoComment
    /\ NoModeList

NextLink == Linkify

SpecLink == InitLink /\ [][NextLink]_vars

(***************************************************************************)
(* The loop that lists the entries of a container: the fields of a message *)
(* (lines 551-629), the values of an enum (lines 651-695), the methods of  *)
(* a service (lines 707-745).  An entry is hidden or not, and its Options  *)
(* are nil, or say deprecated or not.                                      *)
(***************************************************************************)
MaxEntries == 3

EntryKinds == [hidden : BOOLEAN, options : {"nil", "active", "deprecated"}]

\* field.Options.GetDeprecated()
GetDeprecated(entry) == entry.options = "deprecated"

\* Skipped without the second half of lines 560-561: an entry without
\* Options is in both passes
SkippedOptionsOnly(entry, pass) ==
    \/ entry.hidden
    \/ (entry.options # "nil" /\ GetDeprecated(entry) # pass)

\* lines 556-563: the entry is left out of the pass
Skipped(entry, pass) ==
    \/ entry.hidden
    \/ (entry.options # "nil" /\ GetDeprecated(entry) # pass)
    \/ (entry.options = "nil" /\ pass)

\* lines 565-622: the row of the entry is emitted
EmitEntry ==
    /\ renderPc = "loop"
    /\ entryIdx <= Len(entries)
    /\ ~Skipped(entries[entryIdx], dep)
    /\ emitted' = Append(emitted, entryIdx)
    /\ entryIdx' = entryIdx + 1
    /\ UNCHANGED <<inputs, commentVars, linkVars, runVars, entries, renderPc, dep>>

\* lines 557, 562: continue
SkipEntry ==
    /\ renderPc = "loop"
    /\ entryIdx <= Len(entries)
    /\ Skipped(entries[entryIdx], dep)
    /\ entryIdx' = entryIdx + 1
    /\ UNCHANGED <<inputs, commentVars, linkVars, runVars, entries, renderPc, dep, emitted>>

\* line 628: the pass over the active entries ended
DeprecatedPass ==
    /\ renderPc = "loop"
    /\ entryIdx > Len(entries)
    /\ ~dep
    /\ dep' = TRUE
    /\ entryIdx' = 1
    /\ UNCHANGED <<inputs, commentVars, linkVars, runVars, entries, renderPc, emitted>>

\* lines 625-627: break
EndOfEntries ==
    /\ renderPc = "loop"
    /\ entryIdx > Len(entries)
    /\ dep
    /\ renderPc' = "done"
    /\ UNCHANGED <<inputs, commentVars, linkVars, runVars, entries, dep, entryIdx, emitted>>

InitRender ==
    /\ fileMode = [f \in Files |-> ModeUnset]
    /\ filesToGen = Files
    /\ homeLocation = [f \in Files |-> ""]
    /\ fields = [n \in MessageNodes |-> <<>>]
    /\ uncommented = {}
    /\ hiddenNodes = {}
    /\ genWarnings = FALSE
    /\ warningsAsErrors = FALSE
    /\ PlainDescriptors
    /\ StartState
    /\ NoLink
    /\ entries \in SeqsUpTo(EntryKinds, MaxEntries)
    /\ renderPc = "loop"
    /\ dep = FALSE
    /\ entryIdx = 1
    /\ emitted = <<>>
    /\ NoComment
    /\ NoModeList

NextRender == EmitEntry \/ SkipEntry \/ DeprecatedPass \/ EndOfEntries

SpecRender == InitRender /\ [][NextRender]_vars

(***************************************************************************)
(* generateFile on its own: one call with any two lists in bounds, the     *)
(* messages list with map entries, hidden and well-known messages and      *)
(* with the same message several times.                                    *)
(***************************************************************************)
\* longest list of messages or of enums generateFile is given
MaxList == 3

\* lines 263-402: generateFile(top, messages, enums, services)
GenerateFile ==
    /\ pc = "generateFile"
    /\ response = <<>>
    /\ \E messages \in SeqsUpTo(MessageNodes, MaxList), enums \in SeqsUpTo(EnumNodes, MaxList) :
         LET wl == [EmptyLists EXCEPT !.messages = messages, !.enums = enums]
             doc == Document(<<"doc">>, currentFrontMatterProvider, {}, wl)
             st == RenderTypes([numWarnings |-> numWarnings, occurrences |-> occurrences],
                               wl, doc.typeList, 1)
         IN  /\ response' = <<doc>>
             /\ buffer' = doc.content
             /\ numWarnings' = st.numWarnings
             /\ occurrences' = st.occurrences
    /\ pc' = "generated"
    /\ UNCHANGED <<inputs, commentVars, linkVars, renderVars, pkgIdx, fileIdx, mode, filteredFiles,
                   currentPackage, currentFrontMatterProvider, result, pkgModes>>

InitGenerateFile ==
    /\ fileMode = [f \in Files |-> ModeUnset]
    /\ filesToGen = Files
    /\ homeLocation = [f \in Files |-> ""]
    /\ fields = [n \in MessageNodes |-> <<>>]
    /\ uncommented \in CommentlessSets
    /\ hiddenNodes \in {{}, {2}, {5}}
    /\ mapEntryNodes \in {{}, {3}}
    /\ pkgFileDesc = [pkg \in Range(Packages) |-> IF pkg = "p" THEN 1 ELSE 4]
    /\ \E qn \in {<<"q">>, <<"google", "protobuf">>} :
         pkgName = [pkg \in Range(Packages) |-> IF pkg = "p" THEN <<"p">> ELSE qn]
    /\ genWarnings = TRUE
    /\ warningsAsErrors = FALSE
    /\ pc = "generateFile"
    /\ pkgIdx \in 1..Len(Packages)
    /\ currentPackage = Packages[pkgIdx]
    /\ currentFrontMatterProvider = PkgFileDesc(currentPackage)
    /\ fileIdx = 1
    /\ mode = ModePackage
    /\ filteredFiles = {}
    /\ response = <<>>
    /\ buffer = <<>>
    /\ numWarnings = 0
    /\ result = NoResult
    /\ occurrences = 0
    /\ pkgModes = <<>>
    /\ NoLink
    /\ NoContainer
    /\ NoComment
    /\ NoModeList

NextGenerateFile == GenerateFile

SpecGenerateFile == InitGenerateFile /\ [][NextGenerateFile]_vars

(***************************************************************************)
(* generateComment, from its entry to the end of the loop that elides the  *)
(* HTML comments (lines 760-844).  A string is the sequence of its         *)
(* characters; offsets into a string count from 0 as in the code, the      *)
(* index into lines counts from 1.                                         *)
(***************************************************************************)
\* most pieces (text, comment markers, line ends) a comment is made of
MaxTokens == 6
\* most characters of a comment made of text, spaces and header marks
MaxChars == 6
\* most i-- steps of the elision loop that are followed
MaxRescans == 4

NewLine == "\n"
CommentOpen == <<"<", "!", "-", "-">>
CommentClose == <<"-", "-", ">">>

\* s[a:] and s[:b]
From(s, a) == SubSeq(s, a + 1, Len(s))
To(s, b) == SubSeq(s, 1, b)

\* strings.Index: the offset of the first sub in s, -1 when there is none
RECURSIVE IndexFrom(_, _, _)
IndexFrom(s, sub, k) ==
    IF k + Len(sub) > Len(s)
    THEN -1
    ELSE IF SubSeq(s, k + 1, k + Len(sub)) = sub
         THEN k
         ELSE IndexFrom(s, sub, k + 1)
Index(s, sub) == IndexFrom(s, sub, 0)

\* strings.HasPrefix
HasPrefix(s, prefix) == Len(s) >= Len(prefix) /\ To(s, Len(prefix)) = prefix

\* strings.TrimSuffix
TrimSuffix(s, suffix) ==
    IF Len(s) >= Len(suffix) /\ From(s, Len(s) - Len(suffix)) = suffix
    THEN To(s, Len(s) - Len(suffix))
    ELSE s

\* strings.Split(text, "\n")
RECURSIVE Split(_)
Split(text) ==
    LET k == Index(text, <<NewLine>>) IN
    IF k < 0 THEN <<text>> ELSE <<To(text, k)>> \o Split(From(text, k + 1))

\* unicode.IsSpace, on the characters the comments are made of
IsSpace(ch) == ch \in {" ", "\t", NewLine}

\* lines 777-783: pad, the offset of the first character of lines[0] that is
\* no space; 0 when there is none
RECURSIVE PadFrom(_, _)
PadFrom(l, k) ==
    IF k >= Len(l) THEN 0
    ELSE IF ~IsSpace(l[k + 1]) THEN k
    ELSE PadFrom(l, k + 1)
Pad(l) == PadFrom(l, 0)

\* lines 788-798: skip when the loop over a line l that is not empty ends
RECURSIVE SkipFrom(_, _, _)
SkipFrom(l, pad, k) ==
    IF ~IsSpace(l[k + 1]) THEN k
    ELSE IF k = pad THEN k
    ELSE IF k + 1 >= Len(l) THEN k
    ELSE SkipFrom(l, pad, k + 1)

\* lines 786-800: one line of the loop that removes the indent
Unindent(l, pad) == IF Len(l) > pad THEN From(l, SkipFrom(l, pad, 0)) ELSE l

\* lines 806-813: one line of the loop that adjusts the headers
AdjustHeader(l) ==
    IF HasPrefix(l, <<"#">>)
    THEN (IF grouping THEN <<"#", "#", "#">> ELSE <<"#", "#">>) \o l
    ELSE l

\* lines 761-771: the comment is split into its lines, or there is none
StartComment ==
    /\ commentPc = "comment"
    /\ IF com = <<>>
       THEN /\ numWarnings' = warn(numWarnings)
            /\ occurrences' = occurrences + 1
            /\ commentPc' = "returned"
            /\ lines' = lines
       ELSE /\ lines' = Split(TrimSuffix(com, <<NewLine>>))
            /\ commentPc' = "indent"
            /\ UNCHANGED <<numWarnings, occurrences>>
    /\ UNCHANGED <<inputs, linkVars, renderVars, com, lineIdx, grouping, elideIn, rescans,
                   pc, pkgIdx, fileIdx, mode, filteredFiles, response, buffer, currentPackage,
                   currentFrontMatterProvider, result, pkgModes>>

\* lines 777-801
NormalizeIndent ==
    /\ commentPc = "indent"
    /\ lines' = [k \in 1..Len(lines) |-> Unindent(lines[k], Pad(lines[1]))]
    /\ commentPc' = "headers"
    /\ UNCHANGED <<inputs, linkVars, renderVars, runVars, com, lineIdx, grouping, elideIn, rescans>>

\* lines 805-814, and i := 0 of line 817
AdjustHeaders ==
    /\ commentPc = "headers"
    /\ lines' = [k \in 1..Len(lines) |-> AdjustHeader(lines[k])]
    /\ elideIn' = lines'
    /\ lineIdx' = 1
    /\ commentPc' = "elide"
    /\ UNCHANGED <<inputs, linkVars, renderVars, runVars, com, grouping, rescans>>

\* line 823: the offset strings.Index returns, in lines[i][commentStart+3:]
CommentEnd(l) == Index(From(l, Index(l, CommentOpen) + 3), CommentClose)

\* lines 818-820: no comment starts in the line; continue
ElideContinue ==
    /\ commentPc = "elide"
    /\ lineIdx <= Len(lines)
    /\ Index(lines[lineIdx], CommentOpen) < 0
    /\ lineIdx' = lineIdx + 1
    /\ UNCHANGED <<inputs, linkVars, renderVars, runVars, com, lines, commentPc, grouping, elideIn, rescans>>

\* the line a comment that starts and ends in it is replaced by (line 826)
StripCommented(l) == To(l, Index(l, CommentOpen)) \o From(l, CommentEnd(l) + 3)

\* i after lines 827-828 and the i++ of line 817
AfterSpanNoRescan(idx) == idx + 1
AfterSpan(idx) == (idx - 1) + 1

\* lines 823-829: the comment ends in the line it starts in
ElideSpan ==
    /\ commentPc = "elide"
    /\ lineIdx <= Len(lines)
    /\ Index(lines[lineIdx], CommentOpen) >= 0
    /\ CommentEnd(lines[lineIdx]) >= 0
    /\ rescans < MaxRescans
    /\ lines' = [lines EXCEPT ![lineIdx] = StripCommented(@)]
    /\ lineIdx' = AfterSpan(lineIdx)
    /\ rescans' = rescans + 1
    /\ UNCHANGED <<inputs, linkVars, renderVars, runVars, com, commentPc, grouping, elideIn>>

\* lines 831-834: the comment does not end in the line it starts in
ElideOpen ==
    /\ commentPc = "elide"
    /\ lineIdx <= Len(lines)
    /\ Index(lines[lineIdx], CommentOpen) >= 0
    /\ CommentEnd(lines[lineIdx]) < 0
    /\ lines' = [lines EXCEPT ![lineIdx] = To(@, Index(@, CommentOpen))]
    /\ lineIdx' = lineIdx + 1
    /\ commentPc' = "findEnd"
    /\ UNCHANGED <<inputs, linkVars, renderVars, runVars, com, grouping, elideIn, rescans>>

\* lines 835-836, 842: a line the comment does not end in
BlankLine ==
    /\ commentPc = "findEnd"
    /\ lineIdx <= Len(lines)
    /\ Index(lines[lineIdx], CommentClose) < 0
    /\ lines' = [lines EXCEPT ![lineIdx] = <<>>]
    /\ lineIdx' = lineIdx + 1
    /\ UNCHANGED <<inputs, linkVars, renderVars, runVars, com, commentPc, grouping, elideIn, rescans>>

\* lines 835-841: the line the comment ends in, which is scanned again
FindEnd ==
    /\ commentPc = "findEnd"
    /\ lineIdx <= Len(lines)
    /\ Index(lines[lineIdx], CommentClose) >= 0
    /\ rescans < MaxRescans
    /\ lines' = [lines EXCEPT ![lineIdx] = From(@, Index(@, CommentClose) + 3)]
    /\ lineIdx' = (lineIdx - 1) + 1
    /\ rescans' = rescans + 1
    /\ commentPc' = "elide"
    /\ UNCHANGED <<inputs, linkVars, renderVars, runVars, com, grouping, elideIn>>

\* lines 834, 817: the comment ends in no line; both loops are over
NoEnd ==
    /\ commentPc = "findEnd"
    /\ lineIdx > Len(lines)
    /\ lineIdx' = lineIdx + 1
    /\ commentPc' = "elided"
    /\ UNCHANGED <<inputs, linkVars, renderVars, runVars, com, lines, grouping, elideIn, rescans>>

\* line 817: i < len(lines) fails
EndOfElision ==
    /\ commentPc = "elide"
    /\ lineIdx > Len(lines)
    /\ commentPc' = "elided"
    /\ UNCHANGED <<inputs, linkVars, renderVars, runVars, com, lines, lineIdx, grouping, elideIn, rescans>>

\* the comments: made of text, comment markers and line ends, or of text,
\* spaces, header marks and line ends
RECURSIVE Flatten(_)
Flatten(tokens) == IF tokens = <<>> THEN <<>> ELSE Head(tokens) \o Flatten(Tail(tokens))
MarkupTokens == {<<"a">>, CommentOpen, CommentClose, <<NewLine>>}
IndentChars == {"a", " ", "#", NewLine}

InitComment ==
    /\ fileMode = [f \in Files |-> ModeUnset]
    /\ filesToGen = Files
    /\ homeLocation = [f \in Files |-> ""]
    /\ fields = [n \in MessageNodes |-> <<>>]
    /\ uncommented = {}
    /\ hiddenNodes = {}
    /\ genWarnings = TRUE
    /\ warningsAsErrors = FALSE
    /\ PlainDescriptors
    /\ StartState
    /\ NoLink
    /\ NoContainer
    /\ NoModeList
    /\ \/ \E tokens \in SeqsUpTo(MarkupTokens, MaxTokens) : com = Flatten(tokens)
       \/ com \in SeqsUpTo(IndentChars, MaxChars)
    /\ lines = <<>>
    /\ lineIdx = 1
    /\ commentPc = "comment"
    /\ grouping \in BOOLEAN
    /\ elideIn = <<>>
    /\ rescans = 0

NextComment ==
    \/ StartComment
    \/ NormalizeIndent
    \/ AdjustHeaders
    \/ ElideContinue
    \/ ElideSpan
    \/ ElideOpen
    \/ BlankLine
    \/ FindEnd
    \/ NoEnd
    \/ EndOfElision

SpecComment == InitComment /\ [][NextComment]_vars

(***************************************************************************)
(* The mode of one package on its own (lines 167-178 and the switch of     *)
(* lines 193-201), for a package of any number of files in bounds.         *)
(***************************************************************************)
\* most files of the package
MaxPackageFiles == 3

\* lines 167-178, 193-201
ResolveMode ==
    /\ pc = "resolve"
    /\ LET r == ResolveModes(packageFileModes, ModeUnset, 1) IN
        /\ mode' = r.mode
        /\ result' = IF r.conflict
                     THEN ModeConflictResult(r.have, r.got, r.file)
                     ELSE result
        /\ pc' = IF r.conflict THEN "done" ELSE OutputKind(r.mode)
    /\ UNCHANGED <<inputs, commentVars, linkVars, renderVars, buffer, pkgIdx, fileIdx,
                   filteredFiles, response, numWarnings, currentPackage,
                   currentFrontMatterProvider, occurrences, pkgModes>>

InitResolve ==
    /\ fileMode = [f \in Files |-> ModeUnset]
    /\ filesToGen = Files
    /\ homeLocation = [f \in Files |-> ""]
    /\ fields = [n \in MessageNodes |-> <<>>]
    /\ uncommented = {}
    /\ hiddenNodes = {}
    /\ genWarnings \in BOOLEAN
    /\ warningsAsErrors = FALSE
    /\ packageFileModes \in SeqsUpTo(Modes, MaxPackageFiles)
    /\ PlainDescriptors
    /\ pc = "resolve"
    /\ pkgIdx = 1
    /\ fileIdx = 1
    /\ mode = ModeUnset
    /\ filteredFiles = {}
    /\ response = <<>>
    /\ buffer = <<>>
    /\ numWarnings = 0
    /\ currentPackage = Packages[1]
    /\ currentFrontMatterProvider = PkgFileDesc(Packages[1])
    /\ result = NoResult
    /\ occurrences = 0
    /\ pkgModes = <<>>
    /\ NoLink
    /\ NoContainer
    /\ NoComment

NextResolve == ResolveMode

SpecResolve == InitResolve /\ [][NextResolve]_vars

(***************************************************************************)
(* What the claims speak of.                                               *)
(***************************************************************************)
\* the documents of the output set generateOutput returned
ReturnedFiles == IF result.response = ResponsePtr THEN response ELSE <<>>

\* the package with index j was scanned without conflict and its generation ended
Processed(j) == j <= Len(pkgModes) /\ (j < pkgIdx \/ pc = "done")

\* the effective mode of a file of package j: its own, else the resolved one
EffectiveMode(file, j) ==
    IF fileMode[file] = ModeUnset THEN pkgModes[j] ELSE fileMode[file]

\* the requested files of package j that are not suppressed, in package order
Included(j) ==
    SelectSeq(PkgFiles(Packages[j]),
              LAMBDA file : file \in filesToGen /\ EffectiveMode(file, j) # ModeNone)

\* the documents appended for package j
DocsOf(j) == SelectSeq(response, LAMBDA d : d.pkg = Packages[j])

\* the number of documents the mode of package j asks for
ExpectedDocs(j) ==
    IF pkgModes[j] \in {ModeFile, ModeUnset} THEN Len(Included(j))
    ELSE IF pkgModes[j] = ModePackage /\ Len(Included(j)) > 0 THEN 1
    ELSE 0

RECURSIVE SumExpected(_)
SumExpected(j) == IF j = 0 THEN 0 ELSE ExpectedDocs(j) + SumExpected(j - 1)

\* the loop that sets the mode is at a file, whose mode is ScannedMode
ScanningFile == pc = "scan" /\ fileIdx <= Len(PkgFiles(currentPackage))
ScannedMode == fileMode[PkgFiles(currentPackage)[fileIdx]]

(***************************************************************************)
(* C1.                                                                     *)
(***************************************************************************)
\* C1 as stated: the first file with a mode sets the package mode; a later
\* explicit mode replaces a package mode of ModeNone; every other explicit
\* mode that differs from the package mode makes generateOutput return an
\* error.
C1_EveryDisagreementFails ==
    [][ScanningFile =>
         /\ (mode = ModeUnset => pc' = "scan" /\ mode' = ScannedMode)
         /\ (mode = ModeNone /\ ScannedMode # ModeUnset
                => pc' = "scan" /\ mode' = ScannedMode)
         /\ (mode \notin {ModeUnset, ModeNone} /\ ScannedMode # ModeUnset
             /\ ScannedMode # mode
                => pc' = "done" /\ result'.err = "mode")]_vars

\* C1 amended: as C1, but a later file that declares ModeNone is no error
\* and leaves the package mode as it is; only a later ModeFile or
\* ModePackage that differs from a package mode of ModeFile or ModePackage
\* makes generateOutput return the error, which names both modes and the file.
C1_DisagreementFailsUnlessNone ==
    [][ScanningFile =>
         /\ (mode = ModeUnset => pc' = "scan" /\ mode' = ScannedMode)
         /\ (mode = ModeNone /\ ScannedMode # ModeUnset
                => pc' = "scan" /\ mode' = ScannedMode)
         /\ (mode \notin {ModeUnset, ModeNone} /\ ScannedMode \notin {ModeUnset, ModeNone}
             /\ ScannedMode # mode
                => /\ pc' = "done"
                   /\ result'.err = "mode"
                   /\ result'.have = mode
                   /\ result'.got = ScannedMode
                   /\ result'.file = PkgFiles(currentPackage)[fileIdx])
         /\ (mode \notin {ModeUnset, ModeNone}
             /\ ScannedMode \in {ModeUnset, ModeNone, mode}
                => pc' = "scan" /\ mode' = mode /\ result' = result)]_vars

\* package p declared ModeFile then ModeNone and resolved to ModeFile without
\* error; package q then declared ModePackage then ModeFile and failed
C1_Witness ==
    /\ pc = "done"
    /\ result.err = "mode"
    /\ result.have = ModePackage
    /\ result.got = ModeFile
    /\ fileMode[1] = ModeFile
    /\ fileMode[2] = ModeNone
    /\ pkgModes = <<ModeFile>>

(***************************************************************************)
(* C2.                                                                     *)
(***************************************************************************)
\* C2 as stated: after a mode conflict in package k, the documents generated
\* for the packages before k are in the output set the run returns, and no
\* document of package k is.
C2_EarlierDocumentsReturned ==
    (pc = "done" /\ result.err = "mode") =>
        /\ \A i \in 1..Len(response) :
              response[i].pkg # currentPackage => response[i] \in Range(ReturnedFiles)
        /\ \A i \in 1..Len(ReturnedFiles) : ReturnedFiles[i].pkg # currentPackage

\* C2 amended: after a mode conflict in package k, generateOutput returns the
\* error and a nil output set; the documents of the packages before k had
\* all been appended to the response it was building, which holds no document
\* of package k and is not returned.
C2_ConflictReturnsNoOutput ==
    (pc = "done" /\ result.err = "mode") =>
        /\ result.response = Nil
        /\ ReturnedFiles = <<>>
        /\ Len(pkgModes) = pkgIdx - 1
        /\ Len(response) = SumExpected(pkgIdx - 1)
        /\ \A i \in 1..Len(response) : response[i].pkg # currentPackage

\* the conflict is in the second package, after documents of the first
C2_Witness ==
    /\ pc = "done"
    /\ result.err = "mode"
    /\ pkgIdx = 2
    /\ Len(response) = 2

(***************************************************************************)
(* C3.                                                                     *)
(***************************************************************************)
\* C3 as stated: in every document, every message or enum that a field of a
\* rendered message refers to, and that is not hidden, not a map entry, not
\* well known and has no home location, is rendered in the same document.
C3_ClosureComplete ==
    \A i \in 1..Len(response) :
        \A m \in response[i].rendered \cap MessageNodes :
            \A k \in 1..Len(fields[m]) :
                LET t == fields[m][k] IN
                (/\ t \in Nodes
                 /\ ~IsHidden(t)
                 /\ ~IsMapEntry(t)
                 /\ Known(absoluteName(t)) = <<>>
                 /\ LinkHome(t) = "")
                    => t \in response[i].rendered

(***************************************************************************)
(* C4.                                                                     *)
(***************************************************************************)
\* C4 as stated: no type that includeUnsituatedDependencies appended to a
\* working list has a home location, the file-specific one or else the
\* package-wide one.
C4_NoExternalTypePulled ==
    \A i \in 1..Len(response) :
        \A k \in 1..Len(response[i].pulled) : LinkHome(response[i].pulled[k]) = ""

(***************************************************************************)
(* C5.                                                                     *)
(***************************************************************************)
\* the home location of the document being rendered
DocumentHome ==
    IF currentFrontMatterProvider = NilFile
    THEN ""
    ELSE homeLocation[currentFrontMatterProvider]

\* the link is a local anchor: its href starts with "#"
IsLocalAnchor(link) == link.tag = "a" /\ link.href[1] = "#"

\* linkify was called
LinkMade == linkOut.tag # "" \/ linkOut.text # <<>>

\* C5 as stated: linkify returns no local anchor for a node whose home
\* location is set and is not the one of the document being rendered,
\* hidden or not, abbreviated or not.
C5_NoLocalAnchorForExternal ==
    (/\ LinkMade
     /\ linkIn.o \in Nodes
     /\ LinkHome(linkIn.o) # ""
     /\ LinkHome(linkIn.o) # DocumentHome)
        => ~IsLocalAnchor(linkOut)

\* C5 amended: linkify returns no local anchor for a node that is not hidden
\* and whose home location is set and is not the one of the document being
\* rendered, abbreviated or not; for a hidden node it looks at no location
\* and returns a local anchor, unless the node is a map entry or well known.
C5_NoLocalAnchorForVisibleExternal ==
    /\ (/\ LinkMade
         /\ linkIn.o \in Nodes
         /\ ~IsHidden(linkIn.o)
         /\ LinkHome(linkIn.o) # ""
         /\ LinkHome(linkIn.o) # DocumentHome)
            => ~IsLocalAnchor(linkOut)
    /\ (/\ LinkMade
         /\ linkIn.o \in Nodes
         /\ IsHidden(linkIn.o)
         /\ ~IsMapEntry(linkIn.o)
         /\ Known(absoluteName(linkIn.o)) = <<>>)
            => IsLocalAnchor(linkOut)

\* an abbreviated link to a visible message whose home is the one of its
\* package, from a document that has another home: an external link
C5_Witness ==
    /\ LinkMade
    /\ linkIn.o = 4
    /\ linkIn.onlyLastComponent
    /\ ~IsHidden(4)
    /\ homeLocation[3] = ""
    /\ LinkHome(4) = "https://ext/"
    /\ DocumentHome = "https://other/"
    /\ linkOut.tag = "a"
    /\ linkOut.href = <<"https://ext/", "#", "Any">>


(***************************************************************************)
(* C6.                                                                     *)
(***************************************************************************)
\* C6 as stated: when a name and a name that extends it by ".x" are both in
\* the type list of a document, the longer one comes after the shorter one
\* in the render order, with only other extensions of the shorter one
\* between them.
C6_ChildrenFollowParent ==
    \A i \in 1..Len(response) :
        LET tl == response[i].typeList IN
        \A a, b \in 1..Len(tl) :
            HasDotPrefix(tl[b], tl[a]) =>
                /\ a < b
                /\ \A c \in (a + 1)..(b - 1) : HasDotPrefix(tl[c], tl[a])

(***************************************************************************)
(* C7.                                                                     *)
(***************************************************************************)
\* C7: no hidden entry is emitted; of two emitted entries the earlier one is
\* deprecated only if the later one is, and two entries of the same pass are
\* in declaration order (so that none is emitted twice); when the loop has
\* ended every entry that is not hidden was emitted.  An entry without
\* Options counts as not deprecated.
C7_ActiveThenDeprecated ==
    /\ \A a \in 1..Len(emitted) : ~entries[emitted[a]].hidden
    /\ \A a, b \in 1..Len(emitted) :
          a < b =>
            /\ GetDeprecated(entries[emitted[a]]) => GetDeprecated(entries[emitted[b]])
            /\ GetDeprecated(entries[emitted[a]]) = GetDeprecated(entries[emitted[b]])
                  => emitted[a] < emitted[b]
    /\ renderPc = "done" =>
          \A i \in 1..Len(entries) :
              ~entries[i].hidden => \E a \in 1..Len(emitted) : emitted[a] = i

\* a deprecated entry declared first is emitted last, after an entry that has
\* no Options and an entry whose Options say not deprecated
C7_Witness ==
    /\ renderPc = "done"
    /\ Len(entries) = 3
    /\ entries[1].options = "deprecated"
    /\ entries[2].options = "nil"
    /\ entries[3].options = "active"
    /\ emitted = <<2, 3, 1>>

(***************************************************************************)
(* C8.                                                                     *)
(***************************************************************************)
\* the files of package j whose effective mode is ModeNone
Suppressed(j) ==
    {file \in Range(PkgFiles(Packages[j])) : EffectiveMode(file, j) = ModeNone}

\* the documents of package j are the ones its mode asks for: one per
\* included file in package order, or one for the package, or none
DocumentsAsMode(j) ==
    LET docs == DocsOf(j)
        inc == Included(j)
    IN  /\ Len(docs) = ExpectedDocs(j)
        /\ pkgModes[j] \in {ModeFile, ModeUnset} =>
              \A k \in 1..Len(docs) :
                  /\ docs[k].name = <<"file", inc[k]>>
                  /\ docs[k].files = {inc[k]}
                  /\ \A n \in Range(AllMessages(inc[k])) : n \in Range(docs[k].messages)
        /\ pkgModes[j] = ModePackage =>
              \A k \in 1..Len(docs) :
                  /\ docs[k].name = <<"package", Packages[j]>>
                  /\ docs[k].files = Range(inc)

\* C8 as stated: the documents of every package processed are the ones its
\* mode asks for, and no document of the package holds a type declared by a
\* suppressed file of the package.
C8_SuppressedContributeNothing ==
    \A j \in 1..Len(Packages) :
        Processed(j) =>
            /\ DocumentsAsMode(j)
            /\ \A k \in 1..Len(DocsOf(j)) :
                  \A file \in Suppressed(j) :
                      /\ file \notin DocsOf(j)[k].files
                      /\ \A n \in Range(DocsOf(j)[k].messages) \cup Range(DocsOf(j)[k].enums) :
                            NodeFile(n) # file

\* C8 amended: the documents of every package processed are the ones its
\* mode asks for; a suppressed file is the source of no document, and a type
\* it declares is in a document of its package only when a field of a message
\* declared by an included file of that document refers to it.
C8_SuppressedOnlyAsDependency ==
    \A j \in 1..Len(Packages) :
        Processed(j) =>
            /\ DocumentsAsMode(j)
            /\ \A k \in 1..Len(DocsOf(j)) :
                  \A file \in Suppressed(j) :
                      /\ file \notin DocsOf(j)[k].files
                      /\ \A n \in Range(DocsOf(j)[k].messages) \cup Range(DocsOf(j)[k].enums) :
                            NodeFile(n) = file =>
                                \E src \in DocsOf(j)[k].files :
                                    \E m \in Range(AllMessages(src)) : n \in Range(fields[m])

\* package p resolved to ModePackage with file 2 suppressed: one document,
\* made from file 1 alone, which holds message A of file 2 because a field of
\* U refers to it; package q then got one document per requested file
C8_Witness ==
    /\ pc = "done"
    /\ result.err = ""
    /\ pkgModes = <<ModePackage, ModeUnset>>
    /\ fileMode[2] = ModeNone
    /\ filesToGen = Files \ {3}
    /\ Len(response) = 2
    /\ response[1].files = {1}
    /\ response[1].messages = <<1, 2>>
    /\ response[2].name = <<"file", 4>>

(***************************************************************************)
(* C9.                                                                     *)
(***************************************************************************)
\* C9: a run without mode conflict returns only after every package was
\* processed and every document generated; it then returns an error with the
\* number of warnings and no output set if warningsAsErrors is set and the
\* counter is not zero, and else the list of all documents and no error.
C9_PromotionAtEndOfRun ==
    (pc = "done" /\ result.err # "mode") =>
        /\ pkgIdx = Len(Packages) + 1
        /\ Len(pkgModes) = Len(Packages)
        /\ Len(response) = SumExpected(Len(Packages))
        /\ IF warningsAsErrors /\ numWarnings > 0
           THEN /\ result.err = "warnings"
                /\ result.count = numWarnings
                /\ result.response = Nil
                /\ ReturnedFiles = <<>>
           ELSE /\ result.err = ""
                /\ result.response = ResponsePtr
                /\ ReturnedFiles = response

\* a run that generated documents for both packages and failed on warnings
C9_Witness ==
    /\ pc = "done"
    /\ result.err = "warnings"
    /\ result.count = 2
    /\ Len(response) = 3

(***************************************************************************)
(* C10.                                                                    *)
(***************************************************************************)
\* C10 as stated: the warning counter is the number of warning occurrences
\* so far, whether or not genWarnings is set.
C10_EveryWarningCounted == numWarnings = occurrences


(***************************************************************************)
(* C11: The type list generateFile renders holds exactly the distinct      *)
(* display names of the messages that are not map entries, not hidden and  *)
(* not well known and of the enums that are not hidden and not well        *)
(* known: no name of a filtered node, no name twice, none missing.         *)
(***************************************************************************)
EligibleNames(doc) ==
    {relativeName(m) : m \in {n \in Range(doc.messages) :
                                 /\ ~IsMapEntry(n)
                                 /\ ~IsHidden(n)
                                 /\ Known(absoluteName(n)) = <<>>}}
    \cup {relativeName(e) : e \in {n \in Range(doc.enums) :
                                      ~IsHidden(n) /\ Known(absoluteName(n)) = <<>>}}

C11_TypeListIsDistinctEligibleNames ==
    \A k \in 1..Len(response) :
        /\ Range(response[k].typeList) = EligibleNames(response[k])
        /\ Cardinality(Range(response[k].typeList)) = Len(response[k].typeList)

\* message A twice and its map entry A.B, enum E twice, Any well known
C11_Witness ==
    /\ pc = "generated"
    /\ currentPackage = "q"
    /\ mapEntryNodes = {3}
    /\ pkgName["q"] = <<"google", "protobuf">>
    /\ response[1].messages = <<2, 3, 2>>
    /\ response[1].enums = <<5, 5>>
    /\ response[1].typeList = <<<<"p", "A">>, <<"E">>>>

\* a line without the spans of HTML comment in it; inside tells whether a
\* span that started in a line before is still open
RECURSIVE WithoutSpans(_, _)
WithoutSpans(l, inside) ==
    IF l = <<>>
    THEN [text |-> <<>>, inside |-> inside]
    ELSE IF inside
         THEN IF HasPrefix(l, CommentClose)
              THEN WithoutSpans(From(l, Len(CommentClose)), FALSE)
              ELSE WithoutSpans(Tail(l), TRUE)
         ELSE IF HasPrefix(l, CommentOpen)
              THEN WithoutSpans(From(l, Len(CommentOpen)), TRUE)
              ELSE LET rest == WithoutSpans(Tail(l), FALSE)
                   IN  [text |-> <<Head(l)>> \o rest.text, inside |-> rest.inside]

RECURSIVE LinesWithoutSpans(_, _)
LinesWithoutSpans(ls, inside) ==
    IF ls = <<>>
    THEN <<>>
    ELSE LET first == WithoutSpans(Head(ls), inside)
         IN  <<first.text>> \o LinesWithoutSpans(Tail(ls), first.inside)

(***************************************************************************)
(* C12: The lines after the elision step are the lines before it with      *)
(* every span from an opening to a closing marker of HTML comment removed  *)
(* and every character outside a span kept, in order, wherever the span    *)
(* is in a line and whether or not it ends in the line it starts in.       *)
(***************************************************************************)
C12_SpansRemoved ==
    commentPc = "elided" => lines = LinesWithoutSpans(elideIn, FALSE)

\* the number of spaces a line starts with
RECURSIVE LeadingSpaces(_)
LeadingSpaces(l) ==
    IF l = <<>> \/ ~IsSpace(Head(l)) THEN 0 ELSE 1 + LeadingSpaces(Tail(l))

Min(a, b) == IF a < b THEN a ELSE b

\* lines 770-771: the lines of the comment
CommentLines == Split(TrimSuffix(com, <<NewLine>>))

(***************************************************************************)
(* C13: With pad the number of spaces the first line starts with, the      *)
(* indent normalization takes from every line its first min(pad, number    *)
(* of spaces the line starts with) characters, also from a line that is    *)
(* not longer than pad and when the first line is made of spaces only.     *)
(***************************************************************************)
C13_IndentRemoved ==
    commentPc = "headers" =>
        \A k \in 1..Len(lines) :
            lines[k] = From(CommentLines[k],
                            Min(LeadingSpaces(CommentLines[1]), LeadingSpaces(CommentLines[k])))

(***************************************************************************)
(* C14: When the elision step completes, no line holds an opening marker   *)
(* of HTML comment any more, so that the step applied to its own output    *)
(* leaves every line as it is.                                             *)
(***************************************************************************)
C14_NoOpeningMarkerLeft ==
    commentPc = "elided" => \A k \in 1..Len(lines) : Index(lines[k], CommentOpen) < 0

\* a comment with two spans, one that ends in the line it starts in and one
\* that does not, went through the step
C14_Witness ==
    /\ commentPc = "elided"
    /\ rescans = 2
    /\ Len(elideIn) = 2
    /\ Index(elideIn[1], CommentOpen) = 1
    /\ Index(elideIn[2], CommentClose) = 0

(***************************************************************************)
(* C17: Each time the elision loop scans a line again (the i-- steps),     *)
(* the line has become strictly shorter, so that no line is scanned for    *)
(* ever and none grows.                                                    *)
(***************************************************************************)
C17_RescannedLineShorter ==
    [][rescans' = rescans + 1 => Len(lines'[lineIdx]) < Len(lines[lineIdx])]_vars

\* no element of the list occurs twice in it; every node has a display name
\* of its own, so this is "no display name occurs twice"
NoDuplicates(descs) ==
    \A i, j \in 1..Len(descs) : descs[i] = descs[j] => i = j

(***************************************************************************)
(* C15: After the closure expansion no display name occurs twice in the    *)
(* working list of messages and none occurs twice in the working list of   *)
(* enums, also for an enum several fields refer to.                        *)
(***************************************************************************)
C15_NoNameTwice ==
    \A k \in 1..Len(response) :
        NoDuplicates(response[k].messages) /\ NoDuplicates(response[k].enums)

(***************************************************************************)
(* C16: includeUnsituatedDependencies terminates on every type graph,      *)
(* with messages that refer to themselves or to each other: the calls      *)
(* made from within the call for one scanned message are at most as many   *)
(* as the distinct messages its fields refer to.                           *)
(***************************************************************************)
C16_NestedCallsBounded ==
    \A k \in 1..Len(response) :
        \A n \in 1..Len(response[k].nested) :
            response[k].nested[n].calls
                <= Cardinality(Range(fields[response[k].nested[n].msg]) \cap MessageNodes)

\* U and A refer to each other, U also to Any: the document of file 1 was
\* made with two calls from within the call for U
C16_Witness ==
    /\ pc = "done"
    /\ fields[1] = <<2, 4>>
    /\ fields[2] = <<1>>
    /\ result.err = ""
    /\ Len(response) >= 1
    /\ response[1].name = <<"file", 1>>
    /\ response[1].nested = <<[msg |-> 1, calls |-> 2]>>
    /\ response[1].messages = <<1, 2, 4>>

\* what generateFile emits for a document, from its header to its footer
OwnContent(doc) == <<<<"header">>>> \o doc.typeList \o <<<<"footer">>>>

(***************************************************************************)
(* C18: The content of every document of the response is what was         *)
(* emitted while it was generated, from an empty buffer on and nothing      *)
(* else, and generating a later document changes no document that is       *)
(* already in the response.                                                 *)
(***************************************************************************)
C18_BufferIsolation ==
    /\ [](\A k \in 1..Len(response) : response[k].content = OwnContent(response[k]))
    /\ [][\A k \in 1..Len(response) :
              k <= Len(response') /\ response'[k] = response[k]]_vars

\* three documents with three different contents, the last one still in
\* the buffer
C18_Witness ==
    /\ Len(response) = 3
    /\ response[1].content # response[2].content
    /\ response[2].content # response[3].content
    /\ response[1].content # response[3].content
    /\ Len(response[1].content) > 2
    /\ buffer = response[3].content

\* the lists that hold the elements of modes in another order
Reorderings(modes) ==
    {[i \in 1..Len(modes) |-> modes[p[i]]] : p \in Permutations(1..Len(modes))}

\* the mode the claim gives a package whose files declare the modes of S
DeclaredMode(S) ==
    CASE ModeFile \in S -> ModeFile
      [] ModePackage \in S -> ModePackage
      [] ModeNone \in S -> ModeNone
      [] OTHER -> ModeUnset

(***************************************************************************)
(* C19: The outcome of the mode resolution of a package does not depend    *)
(* on the order of its files: it fails iff files declare both ModeFile and *)
(* ModePackage, and else the mode is the one declared mode that is not     *)
(* ModeNone, or ModeNone when only that is declared, or ModeUnset, which   *)
(* generates as ModeFile does.                                             *)
(***************************************************************************)
C19_ModeIndependentOfFileOrder ==
    pc # "resolve" =>
        LET S == Range(packageFileModes)
            fails == ModeFile \in S /\ ModePackage \in S
        IN  /\ (result.err = "mode") <=> fails
            /\ ~fails => /\ mode = DeclaredMode(S)
                         /\ pc = OutputKind(DeclaredMode(S))
                         /\ DeclaredMode(S) = ModeUnset => pc = OutputKind(ModeFile)
            /\ \A modes \in Reorderings(packageFileModes) :
                   LET r == ResolveModes(modes, ModeUnset, 1)
                   IN  /\ r.conflict <=> (result.err = "mode")
                       /\ ~r.conflict => r.mode = mode

\* a suppressed file first, then one that declares nothing and one that
\* declares ModePackage: the package is generated as one document
C19_Witness ==
    /\ pc = "generatePerPackageOutput"
    /\ packageFileModes = <<ModeNone, ModeUnset, ModePackage>>
    /\ mode = ModePackage
====
